---- MODULE Spec2Model ----
(***************************************************************************)
(* Model of rotating_triangle/main.cpp: the linear startup of main(), the  *)
(* shader compile/link checks, the geometry setup, the render loop and the *)
(* teardown.  The windowing library (GLFW), the function loader (GLAD) and *)
(* the graphics driver (OpenGL) are the environment: every result they     *)
(* return to the program is a nondeterministic choice.                     *)
(***************************************************************************)
EXTENDS Integers, Sequences, FiniteSets, TLC

\* ---------------------------------------------------------------- bounds
\* Frames the render loop may begin before the model stops starting new ones.
MaxFrames == 2
\* Small clock ticks the wall clock may make (besides the one long jump).
MaxTicks == 1

\* ------------------------------------------------------------ state
VARIABLES
    pc,             \* position of main()
    exitCode,       \* value returned by main(); meaningful once pc = "exit"
    failed,         \* the startup call that reported failure, or "none"
    calls,          \* every library/driver call main() has made, in order
    cerr,           \* diagnostics written to std::cerr, in order
    glfwUp,         \* the windowing library is initialised
    window,         \* "none" | "open"
    closeFlag,      \* the window's should-close flag
    now,            \* wall clock
    initTime,       \* wall clock when glfwInit started the library timer
    vertexShaderCode, fragmentShaderCode,   \* strings returned by loadShaderSource
    shader,         \* driver-side shader objects, by stage
    success,        \* int success (shared by the three status queries)
    infoLog,        \* char infoLog[512] (shared)
    program,        \* driver-side program object
    programInUse,   \* the program is the context's current program
    vao, vbo,       \* driver-side vertex array / buffer objects
    vboFloats,      \* floats stored in the buffer
    boundVAO,       \* the vertex array is bound
    rotationAngle,  \* float rotationAngle
    sampledAt,      \* wall clock at the glfwGetTime() call of the current frame
    loopStart,      \* wall clock when the render loop was first entered
    transform,      \* glm::mat4 transform of the current frame
    transformLoc,   \* GLuint transformLoc
    uniformValue,   \* value of the pipeline's "transform" uniform on the GPU
    glErrors,       \* calls of the current run that raised a GL error
    uploads,        \* outcome of each glUniformMatrix4fv call, in order
    draws           \* arguments of every glDrawArrays call, in order

vars == << pc, exitCode, failed, calls, cerr, glfwUp, window, closeFlag, now, initTime,
           vertexShaderCode, fragmentShaderCode, shader, success, infoLog,
           program, programInUse, vao, vbo, vboFloats, boundVAO, rotationAngle,
           sampledAt, loopStart, transform, transformLoc, uniformValue,
           glErrors, uploads, draws >>

\* ------------------------------------------------------------ helpers
Stages == {"vertex", "fragment"}

\* Value of a local that has been declared but not yet assigned.
Unassigned == -1

\* Number of occurrences of x in the sequence s.
Count(s, x) == Cardinality({i \in DOMAIN s : s[i] = x})

\* Positions of x in s.
Pos(s, x) == {i \in DOMAIN s : s[i] = x}

\* s is a prefix of t.
IsPrefix(s, t) == Len(s) <= Len(t) /\ SubSeq(t, 1, Len(s)) = s

\* The long jump of the wall clock: past this value a float no longer holds
\* every clock count exactly.
FloatMantissa == 2 ^ 24

RECURSIVE Ulp(_)
Ulp(n) == IF n < FloatMantissa THEN 1 ELSE 2 * Ulp(n \div 2)

\* (float) of a non-negative clock count: 24 significant bits, ties to even.
FloatCast(n) ==
    LET u == Ulp(n)
        q == n \div u
        r == n % u
    IN  IF 2 * r < u THEN q * u
        ELSE IF 2 * r > u THEN (q + 1) * u
        ELSE IF q % 2 = 0 THEN q * u ELSE (q + 1) * u

\* glfwGetTime(): seconds since the library was initialised.
glfwGetTime == now - initTime

\* A GLint stored in a GLuint: 32-bit two's complement, kept as two 16-bit halves.
ToGLuint(x) == << (x \div 65536) % 65536, x % 65536 >>

\* A GLuint passed where a GLint is expected.
ToGLint(u) == IF u[1] >= 32768 THEN (u[1] - 65536) * 65536 + u[2]
              ELSE u[1] * 65536 + u[2]

\* glGetUniformLocation(shaderProgram, "transform")
glGetUniformLocation(p) == IF p.linked /\ p.hasTransform THEN 0 ELSE -1

\* glm::rotate(glm::mat4(1.0f), angle, z): a rotation about Z, the identity at 0.
Identity == [kind |-> "rotZ", angle |-> 0]
RotateZ(m, a) == [kind |-> "rotZ", angle |-> m.angle + a]

\* loadShaderSource(filePath): the text, and whether the open failed.
loadShaderSource(readable, text) ==
    IF readable THEN [text |-> text, diag |-> << >>]
    ELSE [text |-> "", diag |-> << "Failed to open shader file" >>]

\* ------------------------------------------------------------ initial state
Init ==
    /\ pc = "glfwInit"
    /\ exitCode = 0
    /\ failed = "none"
    /\ calls = << >>
    /\ cerr = << >>
    /\ glfwUp = FALSE
    /\ window = "none"
    /\ closeFlag = FALSE
    /\ now = 0
    /\ initTime = 0
    /\ vertexShaderCode = ""
    /\ fragmentShaderCode = ""
    /\ shader = [s \in Stages |-> [state |-> "none", compiled |-> FALSE, attached |-> FALSE]]
    /\ success = Unassigned
    /\ infoLog = "unassigned"
    /\ program = [state |-> "none", linked |-> FALSE, hasTransform |-> FALSE]
    /\ programInUse = FALSE
    /\ vao = "none"
    /\ vbo = "none"
    /\ vboFloats = 0
    /\ boundVAO = FALSE
    /\ rotationAngle = Unassigned
    /\ sampledAt = Unassigned
    /\ loopStart = Unassigned
    /\ transform = Identity
    /\ transformLoc = ToGLuint(0)
    /\ uniformValue = Identity
    /\ glErrors = {}
    /\ uploads = << >>
    /\ draws = << >>

\* ------------------------------------------------------------ startup
\* Variables no startup step touches.
LoopVars == << rotationAngle, sampledAt, loopStart, transform, transformLoc,
               uniformValue, uploads, draws, boundVAO, programInUse >>
ShaderVars == << vertexShaderCode, fragmentShaderCode, shader, success, infoLog,
                 program >>
GeometryVars == << vao, vbo, vboFloats >>

\* main.cpp 36-45: glfwInit and the window hints.
GlfwInit ==
    /\ pc = "glfwInit"
    /\ \E ok \in BOOLEAN :
        IF ok
        THEN /\ glfwUp' = TRUE
             /\ initTime' = now
             /\ calls' = calls \o << "glfwInit", "glfwWindowHint", "glfwWindowHint", "glfwWindowHint" >>
             /\ pc' = "createWindow"
             /\ UNCHANGED << cerr, exitCode, failed >>
        ELSE /\ calls' = Append(calls, "glfwInit")
             /\ failed' = "glfwInit"
             /\ cerr' = Append(cerr, "Failed to initialize GLFW")
             /\ exitCode' = -1
             /\ pc' = "exit"
             /\ UNCHANGED << glfwUp, initTime >>
    /\ UNCHANGED << window, closeFlag, now, glErrors >>
    /\ UNCHANGED << LoopVars, ShaderVars, GeometryVars >>

\* Fault: the window-creation failure path returns without glfwTerminate.
CreateWindow_NoTerminate ==
    /\ pc = "createWindow"
    /\ \E ok \in BOOLEAN :
        IF ok
        THEN /\ window' = "open"
             /\ calls' = calls \o << "glfwCreateWindow", "glfwMakeContextCurrent",
                                     "glfwSetFramebufferSizeCallback" >>
             /\ pc' = "loadGL"
             /\ UNCHANGED << cerr, exitCode, failed >>
        ELSE /\ calls' = Append(calls, "glfwCreateWindow")
             /\ failed' = "glfwCreateWindow"
             /\ cerr' = Append(cerr, "Failed to create GLFW window")
             /\ exitCode' = -1
             /\ pc' = "exit"
             /\ UNCHANGED window
    /\ UNCHANGED << glfwUp, closeFlag, now, initTime, glErrors >>
    /\ UNCHANGED << LoopVars, ShaderVars, GeometryVars >>

\* main.cpp 47-59: create the window; on failure terminate the library and return -1.
CreateWindow ==
    /\ pc = "createWindow"
    /\ \E ok \in BOOLEAN :
        IF ok
        THEN /\ window' = "open"
             /\ calls' = calls \o << "glfwCreateWindow", "glfwMakeContextCurrent",
                                     "glfwSetFramebufferSizeCallback" >>
             /\ pc' = "loadGL"
             /\ UNCHANGED << cerr, exitCode, failed, glfwUp >>
        ELSE /\ calls' = calls \o << "glfwCreateWindow", "glfwTerminate" >>
             /\ failed' = "glfwCreateWindow"
             /\ cerr' = Append(cerr, "Failed to create GLFW window")
             /\ glfwUp' = FALSE
             /\ exitCode' = -1
             /\ pc' = "exit"
             /\ UNCHANGED window
    /\ UNCHANGED << closeFlag, now, initTime, glErrors >>
    /\ UNCHANGED << LoopVars, ShaderVars, GeometryVars >>

\* Fault: the loader failure is reported but main() does not return.
LoadGL_NoReturn ==
    /\ pc = "loadGL"
    /\ calls' = Append(calls, "gladLoadGLLoader")
    /\ \E ok \in BOOLEAN :
        IF ok
        THEN UNCHANGED << cerr, failed >>
        ELSE /\ failed' = "gladLoadGLLoader"
             /\ cerr' = Append(cerr, "Failed to initialize GLAD")
    /\ pc' = "loadVertexSource"
    /\ UNCHANGED << exitCode, glfwUp, window, closeFlag, now, initTime, glErrors >>
    /\ UNCHANGED << LoopVars, ShaderVars, GeometryVars >>

\* main.cpp 62-66: load the OpenGL function pointers; on failure return -1.
LoadGL ==
    /\ pc = "loadGL"
    /\ calls' = Append(calls, "gladLoadGLLoader")
    /\ \E ok \in BOOLEAN :
        IF ok
        THEN /\ pc' = "loadVertexSource"
             /\ UNCHANGED << cerr, exitCode, failed >>
        ELSE /\ failed' = "gladLoadGLLoader"
             /\ cerr' = Append(cerr, "Failed to initialize GLAD")
             /\ exitCode' = -1
             /\ pc' = "exit"
    /\ UNCHANGED << glfwUp, window, closeFlag, now, initTime, glErrors >>
    /\ UNCHANGED << LoopVars, ShaderVars, GeometryVars >>

\* ------------------------------------------------------------ shaders
StartupEnv == << failed, glfwUp, window, closeFlag, now, initTime >>

\* main.cpp 69: read the vertex shader file.
LoadVertexSource ==
    /\ pc = "loadVertexSource"
    /\ \E readable \in BOOLEAN, text \in {"", "glsl"} :
        LET r == loadShaderSource(readable, text)
        IN  /\ vertexShaderCode' = r.text
            /\ cerr' = cerr \o r.diag
    /\ calls' = Append(calls, "loadShaderSource")
    /\ pc' = "loadFragmentSource"
    /\ UNCHANGED << exitCode, fragmentShaderCode, shader, success, infoLog, program, glErrors >>
    /\ UNCHANGED << StartupEnv, LoopVars, GeometryVars >>

\* main.cpp 70-72: read the fragment shader file.
LoadFragmentSource ==
    /\ pc = "loadFragmentSource"
    /\ \E readable \in BOOLEAN, text \in {"", "glsl"} :
        LET r == loadShaderSource(readable, text)
        IN  /\ fragmentShaderCode' = r.text
            /\ cerr' = cerr \o r.diag
    /\ calls' = Append(calls, "loadShaderSource")
    /\ pc' = "compileVertex"
    /\ UNCHANGED << exitCode, vertexShaderCode, shader, success, infoLog, program, glErrors >>
    /\ UNCHANGED << StartupEnv, LoopVars, GeometryVars >>

\* glCreateShader + glShaderSource + glCompileShader for one stage; the driver
\* decides whether the text compiles.
CompileStage(s, nextPc) ==
    /\ \E ok \in BOOLEAN :
        shader' = [shader EXCEPT ![s] = [state |-> "live", compiled |-> ok, attached |-> FALSE]]
    /\ calls' = calls \o << "glCreateShader", "glShaderSource", "glCompileShader" >>
    /\ pc' = nextPc
    /\ UNCHANGED << exitCode, cerr, vertexShaderCode, fragmentShaderCode, success, infoLog,
                    program, glErrors >>
    /\ UNCHANGED << StartupEnv, LoopVars, GeometryVars >>

\* glGetShaderiv(shader, GL_COMPILE_STATUS, &success)
CompileStatus(s) == IF shader[s].compiled THEN 1 ELSE 0

\* glGetProgramiv(shaderProgram, GL_LINK_STATUS, &success)
LinkStatus == IF program.linked THEN 1 ELSE 0

\* The status check that follows each compile and the link: query the status
\* into the shared variable; when it is 0 fetch the log into the shared buffer
\* and print the diagnostic.
CheckStatus(status, log, message, query, nextPc) ==
    /\ success' = status
    /\ IF status = 0
       THEN /\ infoLog' = log
            /\ cerr' = Append(cerr, message)
            /\ calls' = calls \o query
       ELSE /\ calls' = Append(calls, query[1])
            /\ UNCHANGED << infoLog, cerr >>
    /\ pc' = nextPc
    /\ UNCHANGED << exitCode, vertexShaderCode, fragmentShaderCode, shader, program, glErrors >>
    /\ UNCHANGED << StartupEnv, LoopVars, GeometryVars >>

\* main.cpp 75-77
CompileVertex == pc = "compileVertex" /\ CompileStage("vertex", "checkVertex")

\* main.cpp 80-87
CheckVertex ==
    /\ pc = "checkVertex"
    /\ CheckStatus(CompileStatus("vertex"), "vertex log", "Vertex Shader Compilation Error",
                   << "glGetShaderiv", "glGetShaderInfoLog" >>, "compileFragment")

\* main.cpp 90-92
CompileFragment == pc = "compileFragment" /\ CompileStage("fragment", "checkFragment")

\* Fault: the fragment check reads the shared status variable without
\* querying the fragment stage first.
CheckFragment_StaleStatus ==
    /\ pc = "checkFragment"
    /\ CheckStatus(success, "fragment log", "Fragment Shader Compilation Error",
                   << "glGetShaderiv", "glGetShaderInfoLog" >>, "linkProgram")

\* main.cpp 95-100
CheckFragment ==
    /\ pc = "checkFragment"
    /\ CheckStatus(CompileStatus("fragment"), "fragment log", "Fragment Shader Compilation Error",
                   << "glGetShaderiv", "glGetShaderInfoLog" >>, "linkProgram")

\* main.cpp 103-106: create the program, attach both stages, link.  A program
\* links only if both attached stages compiled; a linked program may or may not
\* declare the uniform "transform".
LinkProgram ==
    /\ pc = "linkProgram"
    /\ \E ok \in BOOLEAN, uni \in BOOLEAN :
        /\ ok => (shader["vertex"].compiled /\ shader["fragment"].compiled)
        /\ uni => ok
        /\ program' = [state |-> "live", linked |-> ok, hasTransform |-> uni]
    /\ shader' = [s \in Stages |-> [shader[s] EXCEPT !.attached = TRUE]]
    /\ calls' = calls \o << "glCreateProgram", "glAttachShader", "glAttachShader", "glLinkProgram" >>
    /\ pc' = "checkLink"
    /\ UNCHANGED << exitCode, cerr, vertexShaderCode, fragmentShaderCode, success, infoLog, glErrors >>
    /\ UNCHANGED << StartupEnv, LoopVars, GeometryVars >>

\* Fault: a failed link makes main() return -1.
CheckLink_Fatal ==
    /\ pc = "checkLink"
    /\ IF program.linked
       THEN CheckStatus(LinkStatus, "link log", "Shader Program Linking Error",
                        << "glGetProgramiv", "glGetProgramInfoLog" >>, "deleteVertexShader")
       ELSE /\ calls' = calls \o << "glGetProgramiv", "glGetProgramInfoLog" >>
            /\ success' = 0
            /\ infoLog' = "link log"
            /\ cerr' = Append(cerr, "Shader Program Linking Error")
            /\ exitCode' = -1
            /\ pc' = "exit"
            /\ UNCHANGED << vertexShaderCode, fragmentShaderCode, shader, program, glErrors >>
            /\ UNCHANGED << StartupEnv, LoopVars, GeometryVars >>

\* main.cpp 109-114
CheckLink ==
    /\ pc = "checkLink"
    /\ CheckStatus(LinkStatus, "link log", "Shader Program Linking Error",
                   << "glGetProgramiv", "glGetProgramInfoLog" >>, "deleteVertexShader")

\* glDeleteShader(s): a stage attached to a program is only flagged for
\* deletion; it is deleted when it is no longer attached to any program.
glDeleteShader(sh) ==
    [sh EXCEPT !.state = IF sh.attached THEN "flagged" ELSE "deleted"]

DeleteStage(s, nextPc) ==
    /\ shader' = [shader EXCEPT ![s] = glDeleteShader(shader[s])]
    /\ calls' = Append(calls, "glDeleteShader")
    /\ pc' = nextPc
    /\ UNCHANGED << exitCode, cerr, vertexShaderCode, fragmentShaderCode, success, infoLog,
                    program, glErrors >>
    /\ UNCHANGED << StartupEnv, LoopVars, GeometryVars >>

\* main.cpp 116
DeleteVertexShader == pc = "deleteVertexShader" /\ DeleteStage("vertex", "deleteFragmentShader")

\* Fault: the fragment stage is never passed to glDeleteShader.
DeleteFragmentShader_Skipped ==
    /\ pc = "deleteFragmentShader"
    /\ pc' = "setupGeometry"
    /\ UNCHANGED << exitCode, calls, cerr, glErrors >>
    /\ UNCHANGED << StartupEnv, ShaderVars, LoopVars, GeometryVars >>

\* main.cpp 117
DeleteFragmentShader == pc = "deleteFragmentShader" /\ DeleteStage("fragment", "setupGeometry")

\* ------------------------------------------------------------ geometry
\* float vertices[]: 3 vertices of 3 components.
VertexFloats == 3 * 3

\* main.cpp 120-137: one vertex array, one buffer holding the triangle, one
\* attribute at slot 0.
SetupGeometry ==
    /\ pc = "setupGeometry"
    /\ vao' = "live"
    /\ vbo' = "live"
    /\ boundVAO' = TRUE
    /\ vboFloats' = VertexFloats
    /\ calls' = calls \o << "glGenVertexArrays", "glGenBuffers", "glBindVertexArray",
                            "glBindBuffer", "glBufferData", "glVertexAttribPointer",
                            "glEnableVertexAttribArray" >>
    /\ pc' = "loopHead"
    /\ UNCHANGED << exitCode, cerr, glErrors, rotationAngle, sampledAt, loopStart, transform,
                    transformLoc, uniformValue, uploads, draws, programInUse >>
    /\ UNCHANGED << StartupEnv, ShaderVars >>

\* ------------------------------------------------------------ render loop
SetupVars == << exitCode, failed, cerr, glfwUp, window, initTime, now >>

\* One statement of the loop body that only calls the library.
LoopCall(name, nextPc) ==
    /\ calls' = Append(calls, name)
    /\ pc' = nextPc

\* main.cpp 141: the loop condition.  The model stops starting frames at MaxFrames.
LoopHead ==
    /\ pc = "loopHead"
    /\ calls' = Append(calls, "glfwWindowShouldClose")
    /\ loopStart' = IF loopStart = Unassigned THEN now ELSE loopStart
    /\ IF closeFlag
       THEN pc' = "deleteVAO"
       ELSE /\ Len(draws) < MaxFrames
            /\ pc' = "glClear"
    /\ UNCHANGED << closeFlag, glErrors, rotationAngle, sampledAt, transform, transformLoc,
                    uniformValue, uploads, draws, boundVAO, programInUse >>
    /\ UNCHANGED << SetupVars, ShaderVars, GeometryVars >>

\* main.cpp 143
Clear ==
    /\ pc = "glClear"
    /\ LoopCall("glClear", "glUseProgram")
    /\ UNCHANGED << closeFlag, glErrors >>
    /\ UNCHANGED << SetupVars, LoopVars, ShaderVars, GeometryVars >>

\* main.cpp 145: a program that did not link cannot be made current.
UseProgram ==
    /\ pc = "glUseProgram"
    /\ LoopCall("glUseProgram", "glfwGetTime")
    /\ IF program.linked
       THEN programInUse' = TRUE /\ UNCHANGED glErrors
       ELSE glErrors' = glErrors \cup {"glUseProgram"} /\ UNCHANGED programInUse
    /\ UNCHANGED << closeFlag, rotationAngle, sampledAt, loopStart, transform, transformLoc,
                    uniformValue, uploads, draws, boundVAO >>
    /\ UNCHANGED << SetupVars, ShaderVars, GeometryVars >>

\* Fault: the angle is measured from the first test of the loop condition.
GetTime_SinceLoopStart ==
    /\ pc = "glfwGetTime"
    /\ LoopCall("glfwGetTime", "rotate")
    /\ transform' = Identity
    /\ rotationAngle' = FloatCast(now - loopStart)
    /\ sampledAt' = now
    /\ UNCHANGED << closeFlag, glErrors, loopStart, transformLoc, uniformValue, uploads,
                    draws, boundVAO, programInUse >>
    /\ UNCHANGED << SetupVars, ShaderVars, GeometryVars >>

\* main.cpp 148-150: start from the identity and sample the library timer.
GetTime ==
    /\ pc = "glfwGetTime"
    /\ LoopCall("glfwGetTime", "rotate")
    /\ transform' = Identity
    /\ rotationAngle' = FloatCast(glfwGetTime)
    /\ sampledAt' = now
    /\ UNCHANGED << closeFlag, glErrors, loopStart, transformLoc, uniformValue, uploads,
                    draws, boundVAO, programInUse >>
    /\ UNCHANGED << SetupVars, ShaderVars, GeometryVars >>

\* main.cpp 153-157: rotate about Z by the angle in radians; print both angles.
ComputeTransform ==
    /\ pc = "rotate"
    /\ LoopCall("glm::rotate", "glGetUniformLocation")
    /\ transform' = RotateZ(transform, rotationAngle)
    /\ UNCHANGED << closeFlag, glErrors, rotationAngle, sampledAt, loopStart, transformLoc,
                    uniformValue, uploads, draws, boundVAO, programInUse >>
    /\ UNCHANGED << SetupVars, ShaderVars, GeometryVars >>

\* main.cpp 160: the location, or -1, stored in a GLuint.
GetUniformLocation ==
    /\ pc = "glGetUniformLocation"
    /\ LoopCall("glGetUniformLocation", "glUniformMatrix4fv")
    /\ transformLoc' = ToGLuint(glGetUniformLocation(program))
    /\ glErrors' = IF program.linked THEN glErrors ELSE glErrors \cup {"glGetUniformLocation"}
    /\ UNCHANGED << closeFlag, rotationAngle, sampledAt, loopStart, transform, uniformValue,
                    uploads, draws, boundVAO, programInUse >>
    /\ UNCHANGED << SetupVars, ShaderVars, GeometryVars >>

\* Fault: only the low half of the stored location reaches the driver.
UploadLocation_Truncated == transformLoc[2]

\* The location glUniformMatrix4fv receives: the GLuint converted to GLint.
UploadLocation == ToGLint(transformLoc)

\* Outcomes the driver may give to glUniformMatrix4fv(loc, 1, GL_FALSE, m):
\* with a current program, location -1 is ignored silently, the location of
\* the uniform stores the matrix, anything else is an error; without a current
\* program drivers differ on whether -1 is ignored or reported.
glUniformMatrix4fv(loc) ==
    IF programInUse
    THEN IF loc = -1 THEN {"ignored"}
         ELSE IF loc = glGetUniformLocation(program) THEN {"stored"}
         ELSE {"error"}
    ELSE IF loc = -1 THEN {"ignored", "error"} ELSE {"error"}

\* main.cpp 161
UploadUniform ==
    /\ pc = "glUniformMatrix4fv"
    /\ LoopCall("glUniformMatrix4fv", "glBindVertexArray")
    /\ \E outcome \in glUniformMatrix4fv(UploadLocation) :
        /\ uploads' = Append(uploads, outcome)
        /\ uniformValue' = IF outcome = "stored" THEN transform ELSE uniformValue
        /\ glErrors' = IF outcome = "error" THEN glErrors \cup {"glUniformMatrix4fv"}
                       ELSE glErrors
    /\ UNCHANGED << closeFlag, rotationAngle, sampledAt, loopStart, transform, transformLoc,
                    draws, boundVAO, programInUse >>
    /\ UNCHANGED << SetupVars, ShaderVars, GeometryVars >>

\* main.cpp 163
BindVAO ==
    /\ pc = "glBindVertexArray"
    /\ LoopCall("glBindVertexArray", "glDrawArrays")
    /\ boundVAO' = TRUE
    /\ UNCHANGED << closeFlag, glErrors, rotationAngle, sampledAt, loopStart, transform,
                    transformLoc, uniformValue, uploads, draws, programInUse >>
    /\ UNCHANGED << SetupVars, ShaderVars, GeometryVars >>

\* main.cpp 164: glDrawArrays(GL_TRIANGLES, 0, 3)
Draw ==
    /\ pc = "glDrawArrays"
    /\ LoopCall("glDrawArrays", "glfwSwapBuffers")
    /\ draws' = Append(draws, [mode |-> "GL_TRIANGLES", first |-> 0, count |-> 3])
    /\ UNCHANGED << closeFlag, glErrors, rotationAngle, sampledAt, loopStart, transform,
                    transformLoc, uniformValue, uploads, boundVAO, programInUse >>
    /\ UNCHANGED << SetupVars, ShaderVars, GeometryVars >>

\* Fault: the frame is presented but the events are not processed.
SwapBuffers_SkipPoll ==
    /\ pc = "glfwSwapBuffers"
    /\ LoopCall("glfwSwapBuffers", "loopHead")
    /\ UNCHANGED << closeFlag, glErrors >>
    /\ UNCHANGED << SetupVars, LoopVars, ShaderVars, GeometryVars >>

\* main.cpp 166
SwapBuffers ==
    /\ pc = "glfwSwapBuffers"
    /\ LoopCall("glfwSwapBuffers", "glfwPollEvents")
    /\ UNCHANGED << closeFlag, glErrors >>
    /\ UNCHANGED << SetupVars, LoopVars, ShaderVars, GeometryVars >>

\* Fault: the loop condition is not tested before the next frame (do-while).
PollEvents_NoTest ==
    /\ pc = "glfwPollEvents"
    /\ LoopCall("glfwPollEvents", IF Len(draws) < MaxFrames THEN "glClear" ELSE "loopHead")
    /\ \E closeRequested \in BOOLEAN : closeFlag' = (closeFlag \/ closeRequested)
    /\ UNCHANGED glErrors
    /\ UNCHANGED << SetupVars, LoopVars, ShaderVars, GeometryVars >>

\* main.cpp 167: the pending events may include the request to close the window.
PollEvents ==
    /\ pc = "glfwPollEvents"
    /\ LoopCall("glfwPollEvents", "loopHead")
    /\ \E closeRequested \in BOOLEAN : closeFlag' = (closeFlag \/ closeRequested)
    /\ UNCHANGED glErrors
    /\ UNCHANGED << SetupVars, LoopVars, ShaderVars, GeometryVars >>

\* ------------------------------------------------------------ teardown
\* main.cpp 171
DeleteVAO ==
    /\ pc = "deleteVAO"
    /\ LoopCall("glDeleteVertexArrays", "deleteVBO")
    /\ vao' = "deleted"
    /\ boundVAO' = FALSE
    /\ UNCHANGED << closeFlag, glErrors, vbo, vboFloats, rotationAngle, sampledAt, loopStart,
                    transform, transformLoc, uniformValue, uploads, draws, programInUse >>
    /\ UNCHANGED << SetupVars, ShaderVars >>

\* Fault: the buffer is never released.
DeleteVBO_Skipped ==
    /\ pc = "deleteVBO"
    /\ pc' = "deleteProgram"
    /\ UNCHANGED << calls, closeFlag, glErrors >>
    /\ UNCHANGED << SetupVars, LoopVars, ShaderVars, GeometryVars >>

\* main.cpp 172
DeleteVBO ==
    /\ pc = "deleteVBO"
    /\ LoopCall("glDeleteBuffers", "deleteProgram")
    /\ vbo' = "deleted"
    /\ vboFloats' = 0
    /\ UNCHANGED << closeFlag, glErrors, vao >>
    /\ UNCHANGED << SetupVars, LoopVars, ShaderVars >>

\* glDeleteProgram(p): a program that is current is only flagged for deletion;
\* a program that is deleted lets go of its attached stages.
glDeleteProgram(p) ==
    [p EXCEPT !.state = IF programInUse THEN "flagged" ELSE "deleted"]

\* A stage once its program has become p.
AfterProgram(p, sh) ==
    IF p.state = "deleted"
    THEN [sh EXCEPT !.attached = FALSE,
                    !.state = IF sh.state = "flagged" THEN "deleted" ELSE sh.state]
    ELSE sh

\* main.cpp 173
DeleteProgram ==
    /\ pc = "deleteProgram"
    /\ LoopCall("glDeleteProgram", "glfwTerminate")
    /\ program' = glDeleteProgram(program)
    /\ shader' = [s \in Stages |-> AfterProgram(program', shader[s])]
    /\ UNCHANGED << closeFlag, glErrors, vertexShaderCode, fragmentShaderCode, success, infoLog >>
    /\ UNCHANGED << SetupVars, LoopVars, GeometryVars >>

\* main.cpp 174: the library destroys the window and its context, and with the
\* context every object the driver still holds.
Terminate ==
    /\ pc = "glfwTerminate"
    /\ LoopCall("glfwTerminate", "return")
    /\ glfwUp' = FALSE
    /\ window' = "none"
    /\ programInUse' = FALSE
    /\ program' = [program EXCEPT !.state = "deleted"]
    /\ shader' = [s \in Stages |-> AfterProgram(program', shader[s])]
    /\ UNCHANGED << exitCode, failed, cerr, initTime, now, closeFlag, glErrors, vertexShaderCode,
                    fragmentShaderCode, success, infoLog, rotationAngle, sampledAt, loopStart,
                    transform, transformLoc, uniformValue, uploads, draws, boundVAO >>
    /\ UNCHANGED GeometryVars

\* main.cpp 176
Return ==
    /\ pc = "return"
    /\ exitCode' = 0
    /\ pc' = "exit"
    /\ UNCHANGED << failed, calls, cerr, glfwUp, window, initTime, now, closeFlag, glErrors >>
    /\ UNCHANGED << LoopVars, ShaderVars, GeometryVars >>

\* main() or the library is about to read the wall clock: glfwInit starts the
\* timer, the first test of the loop condition marks the start of the loop,
\* glfwGetTime samples the timer.
ClockRead ==
    \/ pc = "glfwInit"
    \/ pc = "loopHead" /\ loopStart = Unassigned
    \/ pc = "glfwGetTime"

\* The wall clock advances: by one count, or once by the long jump.  Time that
\* passes anywhere else in main() is time that has passed by the next read, so
\* the clock is advanced only right before a read.
Tick ==
    /\ ClockRead
    /\ \/ /\ now % FloatMantissa < MaxTicks
          /\ now' = now + 1
       \/ /\ now < FloatMantissa
          /\ now' = now + FloatMantissa
    /\ UNCHANGED << pc, exitCode, failed, calls, cerr, glfwUp, window, closeFlag, initTime,
                    glErrors >>
    /\ UNCHANGED << LoopVars, ShaderVars, GeometryVars >>

Next ==
    \/ GlfwInit
    \/ CreateWindow
    \/ LoadGL
    \/ LoadVertexSource
    \/ LoadFragmentSource
    \/ CompileVertex
    \/ CheckVertex
    \/ CompileFragment
    \/ CheckFragment
    \/ LinkProgram
    \/ CheckLink
    \/ DeleteVertexShader
    \/ DeleteFragmentShader
    \/ SetupGeometry
    \/ LoopHead
    \/ Clear
    \/ UseProgram
    \/ GetTime
    \/ ComputeTransform
    \/ GetUniformLocation
    \/ UploadUniform
    \/ BindVAO
    \/ Draw
    \/ SwapBuffers
    \/ PollEvents
    \/ DeleteVAO
    \/ DeleteVBO
    \/ DeleteProgram
    \/ Terminate
    \/ Return
    \/ Tick

Spec == Init /\ [][Next]_vars

\* main() is one thread that always takes its next step; the clock and the
\* user are under no obligation.
Step == Next /\ pc' # pc
FairSpec == Spec /\ WF_vars(Step)

\* ------------------------------------------------------------ vocabulary of the properties
\* The positions of main(), in program order.
PcOrder == << "glfwInit", "createWindow", "loadGL", "loadVertexSource", "loadFragmentSource",
              "compileVertex", "checkVertex", "compileFragment", "checkFragment",
              "linkProgram", "checkLink", "deleteVertexShader", "deleteFragmentShader",
              "setupGeometry", "loopHead", "glClear", "glUseProgram", "glfwGetTime", "rotate",
              "glGetUniformLocation", "glUniformMatrix4fv", "glBindVertexArray",
              "glDrawArrays", "glfwSwapBuffers", "glfwPollEvents", "deleteVAO", "deleteVBO",
              "deleteProgram", "glfwTerminate", "return", "exit" >>

PcIndex(p) == CHOOSE i \in DOMAIN PcOrder : PcOrder[i] = p

\* main() got past position p (a failed startup got past nothing after it).
Past(p) == failed = "none" /\ PcIndex(pc) > PcIndex(p)

\* The render loop is in state Running: at its head or inside its body, the
\* close signal not yet observed.
Running == failed = "none" /\ PcIndex(pc) >= PcIndex("loopHead")
                           /\ PcIndex(pc) <= PcIndex("glfwPollEvents")

\* The loop was left: teardown is under way or done.
Closed == Past("glfwPollEvents")

Calls(name) == Count(calls, name)

\* The calls of one iteration of the render loop, after the test at its head.
FrameProtocol == << "glClear", "glUseProgram", "glfwGetTime", "glm::rotate",
                    "glGetUniformLocation", "glUniformMatrix4fv", "glBindVertexArray",
                    "glDrawArrays", "glfwSwapBuffers", "glfwPollEvents" >>

\* The calls of the teardown.
TeardownProtocol == << "glDeleteVertexArrays", "glDeleteBuffers", "glDeleteProgram",
                       "glfwTerminate" >>

Triangle == [mode |-> "GL_TRIANGLES", first |-> 0, count |-> 3]

\* Calls that belong to shader loading, compiling, linking or to the loop.
AfterStartupCalls == { "loadShaderSource", "glCreateShader", "glShaderSource", "glCompileShader",
                       "glCreateProgram", "glLinkProgram", "glGenVertexArrays",
                       "glfwWindowShouldClose", "glClear", "glDrawArrays" }

\* ------------------------------------------------------------ C1
\* C1: the exit code is -1 exactly when glfwInit, glfwCreateWindow or
\* gladLoadGLLoader reported failure, and then main() has returned without
\* loading or compiling any shader and without testing the loop condition;
\* every other exit is code 0, after the close flag was set and observed.
C1_ExitCodes ==
    /\ failed # "none" =>
          /\ pc = "exit" /\ exitCode = -1
          /\ \A c \in AfterStartupCalls : Calls(c) = 0
    /\ (pc = "exit" /\ failed = "none") =>
          /\ exitCode = 0
          /\ closeFlag
          /\ Calls("glfwWindowShouldClose") = Calls("glfwPollEvents") + 1
    /\ (pc = "exit" /\ exitCode = -1) => failed # "none"

C1_Witness == pc = "exit" /\ exitCode = -1 /\ failed = "gladLoadGLLoader"

\* ------------------------------------------------------------ C2
\* The worst combination: a shader file could not be opened, both stages
\* failed to compile and the link failed.
AllShaderStepsFailed ==
    /\ Count(cerr, "Failed to open shader file") >= 1
    /\ ~shader["vertex"].compiled /\ ~shader["fragment"].compiled
    /\ ~program.linked

\* C2: once startup succeeded, whatever the shader files, the two compiles and
\* the link report, main() never returns -1, goes on to link and to set up the
\* geometry, reaches the head of the render loop, has issued one draw call in
\* every iteration it completed, and once the close flag is set it tears down
\* and returns 0.
C2_ShaderFailuresNotFatal ==
    /\ [](Past("loadGL") => ~(pc = "exit" /\ exitCode # 0))
    /\ [](Past("setupGeometry") =>
              Calls("glLinkProgram") = 1 /\ Calls("glBufferData") = 1)
    /\ [](Running => Len(draws) \in {Calls("glfwPollEvents"), Calls("glfwPollEvents") + 1})
    /\ (pc = "loadVertexSource") ~> (pc = "loopHead" /\ Calls("glLinkProgram") = 1
                                       /\ vao = "live" /\ vbo = "live")
    /\ closeFlag ~> (pc = "exit" /\ exitCode = 0 /\ Len(draws) = Calls("glfwPollEvents")
                       /\ Calls("glfwTerminate") = 1)

C2_Witness ==
    /\ pc = "exit" /\ exitCode = 0
    /\ AllShaderStepsFailed
    /\ Len(draws) = MaxFrames

\* ------------------------------------------------------------ C3
\* Positions in calls of the tests of the loop condition.
Heads == Pos(calls, "glfwWindowShouldClose")

\* The calls made between the test at position i and the next test (or now).
Segment(i) ==
    LET later == {j \in Heads : j > i}
        stop  == IF later = {} THEN Len(calls) + 1
                 ELSE CHOOSE j \in later : \A k \in later : j <= k
    IN  SubSeq(calls, i + 1, stop - 1)

IsLastHead(i) == \A j \in Heads : j <= i

\* C3: every iteration the loop completed made exactly the calls glClear,
\* glUseProgram, glfwGetTime, glm::rotate, glGetUniformLocation,
\* glUniformMatrix4fv, glBindVertexArray, glDrawArrays(GL_TRIANGLES, 0, 3),
\* glfwSwapBuffers, glfwPollEvents, once each and in this order; the iteration
\* under way has made a prefix of them; and glfwWindowShouldClose is called
\* only between iterations, never between two of these calls.
C3_FrameProtocol ==
    /\ \A i \in Heads :
          IF ~IsLastHead(i) THEN Segment(i) = FrameProtocol
          ELSE IF Running THEN
                   /\ IsPrefix(Segment(i), FrameProtocol)
                   /\ (pc = "loopHead") = (Segment(i) = FrameProtocol)
               ELSE IsPrefix(Segment(i), TeardownProtocol)
    /\ Len(draws) = Calls("glDrawArrays")
    /\ \A d \in DOMAIN draws : draws[d] = Triangle

C3_Witness ==
    /\ pc = "loopHead"
    /\ Cardinality(Heads) = MaxFrames
    /\ Len(draws) = MaxFrames

\* ------------------------------------------------------------ C4
\* C4: when the close flag is set (during the glfwPollEvents of iteration k,
\* k >= 1) exactly k draw calls of 3 vertices, k clears and k swaps have been
\* made; from then on no draw, clear, swap or poll is made; and main() goes on
\* to tear down and return 0 with exactly k draw calls.
C4_DrawsEqualIterations ==
    /\ [](closeFlag =>
            /\ Calls("glfwPollEvents") >= 1
            /\ Len(draws) = Calls("glfwPollEvents")
            /\ Calls("glClear") = Calls("glfwPollEvents")
            /\ Calls("glfwSwapBuffers") = Calls("glfwPollEvents")
            /\ \A d \in DOMAIN draws : draws[d] = Triangle)
    /\ [][closeFlag =>
            /\ draws' = draws
            /\ \A c \in {"glClear", "glDrawArrays", "glfwSwapBuffers", "glfwPollEvents"} :
                  Count(calls', c) = Count(calls, c)]_vars
    /\ closeFlag ~> (pc = "exit" /\ exitCode = 0 /\ Calls("glfwTerminate") = 1
                       /\ Len(draws) = Calls("glfwWindowShouldClose") - 1)

\* The close flag was set right after the first frame: one draw call, exit 0.
C4_Witness ==
    /\ pc = "exit" /\ exitCode = 0
    /\ Calls("glfwPollEvents") = 1
    /\ draws = << Triangle >>

\* ------------------------------------------------------------ C5
StageCalls == { "glShaderSource", "glCompileShader", "glGetShaderiv", "glGetShaderInfoLog",
                "glAttachShader", "glDetachShader", "glDeleteShader" }

\* The position in calls of the only call of c.
TheCall(c) == CHOOSE i \in DOMAIN calls : calls[i] = c

\* C5 as the specification states it: once the program linked, both stages are
\* detached and gone while the render loop is Running.
C5_StagesGoneWhileRunning ==
    (Running /\ program.linked) =>
        \A s \in Stages : ~shader[s].attached /\ shader[s].state = "deleted"

\* C5, amended: after the link check, whether or not the link succeeded,
\* glDeleteShader is called once on each stage, right after the link check and
\* right before the geometry setup; no stage is ever detached by main(), so
\* while the loop is Running both stages are still attached to the program and
\* only flagged for deletion; they are gone once teardown has destroyed the
\* program or its context; and no call after the two glDeleteShader calls
\* takes a stage handle.
C5_StagesDeletedNotDetached ==
    /\ Calls("glDetachShader") = 0
    /\ Past("deleteFragmentShader") =>
          LET link  == TheCall("glLinkProgram")
              first == IF calls[link + 2] = "glGetProgramInfoLog" THEN link + 3 ELSE link + 2
          IN  /\ Calls("glLinkProgram") = 1
              /\ Calls("glDeleteShader") = 2
              /\ calls[link + 1] = "glGetProgramiv"
              /\ (first = link + 3) = ~program.linked
              /\ calls[first] = "glDeleteShader"
              /\ calls[first + 1] = "glDeleteShader"
              /\ Past("setupGeometry") => calls[first + 2] = "glGenVertexArrays"
              /\ \A i \in DOMAIN calls : i > first + 1 => calls[i] \notin StageCalls
    /\ Running => \A s \in Stages : shader[s].attached /\ shader[s].state = "flagged"
    /\ Past("glfwTerminate") => \A s \in Stages : shader[s].state = "deleted"

C5_Witness ==
    /\ pc = "glDrawArrays"
    /\ program.linked
    /\ \A s \in Stages : shader[s].attached /\ shader[s].state = "flagged"

\* ------------------------------------------------------------ C6
\* The steps of an iteration that come after glm::rotate.
TransformComputed ==
    failed = "none" /\ PcIndex(pc) > PcIndex("rotate")
                    /\ PcIndex(pc) <= PcIndex("glfwPollEvents")

\* C6 as the specification states it: the angle of a frame is the wall-clock
\* time elapsed since the render loop was entered, so a frame sampled at that
\* instant is drawn with the identity.
C6_AngleSinceLoopStart ==
    /\ rotationAngle # Unassigned => rotationAngle = sampledAt - loopStart
    /\ (TransformComputed /\ sampledAt = loopStart) => transform = Identity

\* C6, amended: the angle of a frame is the time elapsed since glfwInit (when
\* the library timer starts) at the moment glfwGetTime is called, rounded to
\* single precision; it includes the time startup and setup took, so a frame
\* sampled at the instant the loop starts has angle 0 and the identity
\* transform only if no time passed since glfwInit; the transform is the
\* rotation of the identity about Z by that angle, and so is the uniform once
\* stored; none of this depends on the frames rendered before.
C6_AngleSinceInit ==
    /\ rotationAngle # Unassigned => rotationAngle = FloatCast(sampledAt - initTime)
    /\ TransformComputed =>
          /\ transform = RotateZ(Identity, FloatCast(sampledAt - initTime))
          /\ (transform = Identity) = (FloatCast(sampledAt - initTime) = 0)
    /\ (PcIndex(pc) > PcIndex("glUniformMatrix4fv") /\ TransformComputed
          /\ uploads[Len(uploads)] = "stored") => uniformValue = transform

\* A second frame, sampled after setup took time and late enough for the
\* rounding to show.
C6_Witness ==
    /\ pc = "glDrawArrays"
    /\ Len(draws) = 1
    /\ loopStart > initTime
    /\ rotationAngle # sampledAt - initTime
    /\ uploads[Len(uploads)] = "stored"

\* ------------------------------------------------------------ C7
\* C7 as the specification states it: a failed startup returns a nonzero code
\* without any cleanup call on any of the three paths.
C7_NoCleanupOnAnyPath ==
    failed # "none" =>
        /\ pc = "exit" /\ exitCode # 0
        /\ Calls("glfwTerminate") = 0
        /\ Calls("glfwDestroyWindow") = 0

\* C7, amended: a failed startup returns -1 at once; when glfwInit or
\* gladLoadGLLoader failed main() makes no cleanup call (after a loader failure
\* the library stays initialised and the window open), but when window
\* creation failed main() calls glfwTerminate once before returning.
C7_CleanupOnlyOnWindowFailure ==
    failed # "none" =>
        /\ pc = "exit" /\ exitCode = -1
        /\ Calls("glfwDestroyWindow") = 0
        /\ Calls("glfwTerminate") = (IF failed = "glfwCreateWindow" THEN 1 ELSE 0)
        /\ failed = "glfwCreateWindow" => calls[Len(calls)] = "glfwTerminate" /\ ~glfwUp
        /\ failed = "gladLoadGLLoader" => glfwUp /\ window = "open"
        /\ failed = "glfwInit" => calls = << "glfwInit" >>

C7_Witness == pc = "exit" /\ failed = "glfwCreateWindow" /\ Calls("glfwTerminate") = 1

\* ------------------------------------------------------------ C8
CreateCalls == { "glCreateProgram", "glGenVertexArrays", "glGenBuffers", "glBufferData" }
ReleaseCalls == { "glDeleteProgram", "glDeleteVertexArrays", "glDeleteBuffers" }

\* The calls that use the object a release call releases.
UsesOf(release) ==
    IF release = "glDeleteVertexArrays"
    THEN { "glBindVertexArray", "glVertexAttribPointer", "glEnableVertexAttribArray",
           "glDrawArrays", "glDeleteVertexArrays" }
    ELSE IF release = "glDeleteBuffers"
    THEN { "glBindBuffer", "glBufferData", "glDrawArrays", "glDeleteBuffers" }
    ELSE { "glAttachShader", "glLinkProgram", "glGetProgramiv", "glGetProgramInfoLog",
           "glUseProgram", "glGetUniformLocation", "glUniformMatrix4fv", "glDrawArrays",
           "glDeleteProgram" }

\* C8: one program, one vertex array and one buffer holding the 9 floats are
\* created during setup; while the loop is Running exactly these exist, live,
\* and none has been created again, uploaded again or released; once the loop
\* is left each is released exactly once, before glfwTerminate, and no call
\* after a release uses the released object.
C8_OnePipelineOneBinding ==
    /\ \A c \in CreateCalls \cup ReleaseCalls : Calls(c) <= 1
    /\ Running =>
          /\ \A c \in CreateCalls : Calls(c) = 1
          /\ \A c \in ReleaseCalls : Calls(c) = 0
          /\ program.state = "live" /\ vao = "live" /\ vbo = "live"
          /\ vboFloats = VertexFloats
    /\ Past("glfwTerminate") =>
          /\ vao = "deleted" /\ vbo = "deleted" /\ program.state = "deleted"
          /\ \A r \in ReleaseCalls :
                /\ Calls(r) = 1
                /\ TheCall(r) < TheCall("glfwTerminate")
                /\ \A i \in DOMAIN calls : i > TheCall(r) => calls[i] \notin UsesOf(r)

C8_Witness == pc = "exit" /\ exitCode = 0 /\ Len(draws) = MaxFrames

\* ------------------------------------------------------------ C9
\* The calls of an iteration that follow the upload.
AfterUpload == << "glBindVertexArray", "glDrawArrays", "glfwSwapBuffers", "glfwPollEvents" >>

VertexMessage == "Vertex Shader Compilation Error"
FragmentMessage == "Fragment Shader Compilation Error"
LinkMessage == "Shader Program Linking Error"

\* How often message m is printed once main() is past position p, given the
\* status the step itself reported.
Printed(m, p, ok) == Count(cerr, m) = (IF Past(p) /\ ~ok THEN 1 ELSE 0)

\* C10: each of the three diagnostics is printed exactly when its own step
\* reported failure (a step that succeeded prints nothing, whatever the shared
\* status variable and log buffer held before), they are printed in the order
\* vertex, fragment, link, and the link is attempted whatever the compiles
\* reported.
C10_DiagnosticPerFailedStep ==
    /\ Printed(VertexMessage, "checkVertex", shader["vertex"].compiled)
    /\ Printed(FragmentMessage, "checkFragment", shader["fragment"].compiled)
    /\ Printed(LinkMessage, "checkLink", program.linked)
    /\ \A i \in Pos(cerr, VertexMessage) :
          \A j \in Pos(cerr, FragmentMessage) \cup Pos(cerr, LinkMessage) : i < j
    /\ \A i \in Pos(cerr, FragmentMessage) : \A j \in Pos(cerr, LinkMessage) : i < j
    /\ Past("linkProgram") => Calls("glLinkProgram") = 1 /\ Calls("glAttachShader") = 2
    /\ Past("checkLink") => success = LinkStatus

\* Both stages failed: both diagnostics in one run, vertex first, link attempted.
C10_Witness ==
    /\ Past("checkLink")
    /\ Pos(cerr, VertexMessage) # {} /\ Pos(cerr, FragmentMessage) # {}
    /\ Calls("glLinkProgram") = 1

====
